---- MODULE Spec2Model ----
(***************************************************************************)
(* A model of the B+tree of include/bptree.h: the node heap, the tree      *)
(* handle, put / get / remove / get_range, the bottom-up rebalancing walk  *)
(* bptree_rebalance_up and the invariant checker                           *)
(* bptree_check_invariants_node.                                           *)
(*                                                                         *)
(* Reading of the source.  The header is unfinished.  A token that names   *)
(* nothing in scope (num_key, abord, child_key, parent_key, ptree_key_t,   *)
(* right_children in the leaf branch of the right merge, parent_keys in    *)
(* the internal branch of the left merge) is read as the declared name it  *)
(* misspells.  An expression that names declared things is modelled as it  *)
(* is written, whatever it computes.  The public functions that the header *)
(* only declares (create, put, get, remove, get_range, check_invariants)   *)
(* and the body of the root shrink are modelled from the design document.  *)
(*                                                                         *)
(* Node arrays.  A node's keys / values / children are the sequences of    *)
(* its live slots (num_keys, or num_keys + 1 for children).  A slot beyond *)
(* them holds whatever an earlier operation left there; when the code      *)
(* makes such a slot live its content is chosen from IndetKey, JunkVal or  *)
(* IndetPtr.                                                               *)
(***************************************************************************)
EXTENDS Integers, Sequences, FiniteSets, TLC

\* ------------------------------------------------------------------ bounds
MaxKey == 5          \* keys are 1..MaxKey
MaxFanout == 3       \* max_keys ranges over MinFanout..MaxFanout
MaxNodes == 9        \* size of the node heap (allocation fails when exhausted)
NumVersions == 1     \* distinct values a caller may put with one key
MaxAfterDamage == 1  \* calls explored after a call that damaged the tree
MaxFailPoint == 3    \* a put's 1st .. MaxFailPoint-th allocation may be the one that fails
ShapeMaxKey == 2     \* largest key in a drawn tree shape
MaxLayoutKeys == 5   \* max_keys ranges over MinFanout..MaxLayoutKeys in the layout checks
MaxKeySize == 8      \* largest BPTREE_KEY_SIZE of a fixed-size string key, in bytes
MaxValueSize == 16   \* largest sizeof(bptree_value_t), in bytes

MinFanout == 2       \* create rejects max_keys < 2
ValueBase == 100     \* value handles are ValueBase * version + key: never a key

Keys == 1..MaxKey
ValuesFor(k) == {ValueBase * i + k : i \in 1..NumVersions}
NodeIds == 1..MaxNodes
Nil == 0             \* the NULL pointer
JunkVal == -1        \* an indeterminate value handle
IndetKey == 0..(MaxKey + 1)      \* contents of a key slot that was never live
IndetPtr == NodeIds \cup {Nil}   \* contents of a child slot that was never live
Fuel == MaxNodes + 1 \* longest pointer chain followed before a walk is cut off

\* ------------------------------------------------------------ status codes
BPTREE_OK == "BPTREE_OK"
BPTREE_DUPLICATE_KEY == "BPTREE_DUPLICATE_KEY"
BPTREE_KEY_NOT_FOUND == "BPTREE_KEY_NOT_FOUND"
BPTREE_ALLOCATION_FAILURE == "BPTREE_ALLOCATION_FAILURE"
BPTREE_INVALID_ARGUMENT == "BPTREE_INVALID_ARGUMENT"
BPTREE_INTERNAL_ERROR == "BPTREE_INTERNAL_ERROR"
\* the process did not return from the call
ABORTED == "ABORTED"   \* abort() or a failed assert
FAULT == "FAULT"       \* a NULL / freed / wild pointer was dereferenced, or a
                       \* write went past a node's arrays

VARIABLES
    tree,   \* struct bptree: count, height, max_keys, min_*_keys, root
    heap,   \* NodeIds -> struct bptree_node, or FreeNode
    op,     \* name of the last call
    ret,    \* what the last call returned (a status code, ABORTED or FAULT)
    log,    \* the decision points the last call passed (its debug messages)
    abs,    \* history: the key -> value map the calls so far should have built
    damaged, \* history: 0, or the number of calls since the first one that made
             \* a slot it never wrote live or dropped a child reference
    build   \* the types the header was compiled with: sizeof and alignof of
            \* bptree_key_t, bptree_value_t and bptree_node*

vars == <<tree, heap, op, ret, log, abs, damaged, build>>

\* -------------------------------------------------------------- sequences
Min(S) == CHOOSE x \in S : \A y \in S : x <= y
Max(S) == CHOOSE x \in S : \A y \in S : x >= y
\* s[i] for a 0-based index, as the C arrays are indexed
At(s, i) == s[i + 1]
\* a copy that stops one slot early
Slice_one_short(s, from, n) == SubSeq(s, from + 1, from + n - 1)
\* s[from .. from+n-1], 0-based
Slice(s, from, n) == SubSeq(s, from + 1, from + n)
InsertAt(s, i, x) == SubSeq(s, 1, i) \o <<x>> \o SubSeq(s, i + 1, Len(s))
RemoveAt(s, i) == SubSeq(s, 1, i) \o SubSeq(s, i + 2, Len(s))
SetAt(s, i, x) == [s EXCEPT ![i + 1] = x]

\* ------------------------------------------------------------ the build
\* alignof of an object type is a power of two, sizeof a multiple of it
Alignments == {1, 2, 4, 8, 16}
ObjectTypes(max_size) ==
    {ty \in [size : 1..max_size, align : Alignments] : ty.size % ty.align = 0}
\* lines 49-63: a struct of BPTREE_KEY_SIZE chars, or a numeric type (int64_t
\* unless BPTREE_NUMERIC_TYPE says otherwise)
KeyTypes ==
    {[size |-> s, align |-> 1] : s \in 1..MaxKeySize} \cup
    {[size |-> a, align |-> a] : a \in {1, 2, 4, 8}}
\* lines 65-70: BPTREE_VALUE_TYPE, void* unless defined otherwise
ValueTypes == ObjectTypes(MaxValueSize)
\* data pointers of a 32-bit and of a 64-bit target
PointerTypes == {[size |-> a, align |-> a] : a \in {4, 8}}
\* lines 82-87: struct bptree_node is a bool, an int and a pointer before data[]
HeaderType(ptr) == [size |-> 8 + ptr.size, align |-> ptr.align]
Builds == [key : KeyTypes, value : ValueTypes, ptr : PointerTypes]
\* the default build on a 64-bit target: int64_t keys, void* values
DefaultBuild ==
    [key |-> [size |-> 8, align |-> 8], value |-> [size |-> 8, align |-> 8],
     ptr |-> [size |-> 8, align |-> 8]]

\* --------------------------------------------------------------- the heap
FreeNode == [free |-> TRUE]
IsNode(h, n) == n \in NodeIds /\ h[n] # FreeNode
NumKeys(h, n) == Len(h[n].keys)

\* a comparator that lost its second test: a key greater than b compares equal
bptree_default_compare_no_gt(a, b) == IF a < b THEN -1 ELSE 0
\* lines 179-181: (a < b) ? -1 : ((a > b) ? 1 : 0), the numeric key kind
bptree_default_compare(a, b) == IF a < b THEN -1 ELSE IF a > b THEN 1 ELSE 0

\* an allocator whose failure goes unreported: the caller gets a node whatever
\* aligned_alloc was able to grant
bptree_node_alloc_unreported(h, is_leaf, avail) ==
    LET n == Min({m \in NodeIds : h[m] = FreeNode} \cup {MaxNodes})
    IN [node |-> n,
        heap |-> [h EXCEPT ![n] = [is_leaf |-> is_leaf, keys |-> <<>>,
                                   vals |-> <<>>, kids |-> <<>>, next |-> Nil]]]

\* lines 371-400.  aligned_alloc gives the lowest free address, or NULL when
\* none is left or when it grants no more (avail = 0); a NULL is returned as it is.
bptree_node_alloc(h, is_leaf, avail) ==
    LET free == {n \in NodeIds : h[n] = FreeNode}
    IN IF free = {} \/ avail = 0 THEN [node |-> Nil, heap |-> h]
       ELSE LET n == Min(free)
            IN [node |-> n,
                heap |-> [h EXCEPT ![n] = [is_leaf |-> is_leaf, keys |-> <<>>,
                                           vals |-> <<>>, kids |-> <<>>, next |-> Nil]]]

\* ------------------------------------------------------------------ create
MinChoices(mk) == 1..(mk \div 2)

bptree_create(mk, minl, mini) ==
    LET a == bptree_node_alloc([n \in NodeIds |-> FreeNode], TRUE, 1)
    IN /\ heap = a.heap
       /\ tree = [count |-> 0, height |-> 0, max_keys |-> mk, min_leaf_keys |-> minl,
                  min_internal_keys |-> mini, root |-> a.node]

\* ------------------------------------------------------------------ lookup
\* smallest index i with key < K[i], or n if there is none
ChildIndex(keys, key) ==
    LET S == {i \in 0..(Len(keys) - 1) : bptree_default_compare(key, At(keys, i)) < 0}
    IN IF S = {} THEN Len(keys) ELSE Min(S)

\* index of key in a leaf's keys, or -1
LeafSearch(keys, key) ==
    LET S == {i \in 0..(Len(keys) - 1) : bptree_default_compare(key, At(keys, i)) = 0}
    IN IF S = {} THEN -1 ELSE Min(S)

\* The descent shared by get, put and remove: the internal nodes visited, the
\* child index taken at each, and the leaf reached.  ok is FALSE when the walk
\* dereferences something that is no node or does not end.
RECURSIVE Descend(_, _, _, _)
Descend(h, n, key, fuel) ==
    IF ~IsNode(h, n) \/ fuel = 0
    THEN [ok |-> FALSE, nodes |-> <<>>, idx |-> <<>>, leaf |-> Nil]
    ELSE IF h[n].is_leaf
    THEN [ok |-> TRUE, nodes |-> <<>>, idx |-> <<>>, leaf |-> n]
    ELSE LET i == ChildIndex(h[n].keys, key)
             r == Descend(h, At(h[n].kids, i), key, fuel - 1)
         IN [ok |-> r.ok, nodes |-> <<n>> \o r.nodes, idx |-> <<i>> \o r.idx,
             leaf |-> r.leaf]

\* get: [status, out]
bptree_get(t, h, key) ==
    LET p == Descend(h, t.root, key, Fuel)
    IN IF ~p.ok THEN [status |-> FAULT, out |-> JunkVal]
       ELSE LET i == LeafSearch(h[p.leaf].keys, key)
            IN IF i < 0 THEN [status |-> BPTREE_KEY_NOT_FOUND, out |-> JunkVal]
               ELSE [status |-> BPTREE_OK, out |-> At(h[p.leaf].vals, i)]

bptree_contains(t, h, key) == bptree_get(t, h, key).status = BPTREE_OK

\* --------------------------------------------------------------------- put
\* Insert (sep, right) into the ancestors of a node that was just split, from
\* level d of the recorded path upwards (d = 0: the split node was the root).
\* avail is the number of node allocations that will still succeed.
RECURSIVE InsertUp(_, _, _, _, _, _, _, _)
InsertUp(t, h, path, d, sep, right, avail, lg) ==
    IF d = 0
    THEN \* the root was split: a new internal root with one key, two children
         LET a == bptree_node_alloc(h, FALSE, avail)
         IN IF a.node = Nil
            THEN [status |-> BPTREE_ALLOCATION_FAILURE, log |-> lg]
            ELSE [status |-> BPTREE_OK,
                  heap |-> [a.heap EXCEPT ![a.node].keys = <<sep>>,
                                          ![a.node].kids = <<t.root, right>>],
                  root |-> a.node, grown |-> 1, log |-> lg \o <<"new_root">>]
    ELSE LET parent == path.nodes[d]
             i == path.idx[d]
         IN IF NumKeys(h, parent) > t.max_keys
            THEN [status |-> FAULT, log |-> lg]   \* no slot left: the shift writes past the arrays
            ELSE LET keys == InsertAt(h[parent].keys, i, sep)
                     kids == InsertAt(h[parent].kids, i + 1, right)
                     total == Len(keys)
                 IN IF total <= t.max_keys
                    THEN [status |-> BPTREE_OK,
                          heap |-> [h EXCEPT ![parent].keys = keys, ![parent].kids = kids],
                          root |-> t.root, grown |-> 0, log |-> lg]
                    ELSE \* overflow: the middle key goes up, the upper half moves
                         LET a == bptree_node_alloc(h, FALSE, avail)
                             mid == total \div 2
                             h2 == [a.heap EXCEPT
                                      ![parent].keys = Slice(keys, 0, mid),
                                      ![parent].kids = Slice(kids, 0, mid + 1),
                                      ![a.node].keys = Slice(keys, mid + 1, total - mid - 1),
                                      ![a.node].kids = Slice(kids, mid + 1, total - mid)]
                         IN IF a.node = Nil
                            THEN [status |-> BPTREE_ALLOCATION_FAILURE, log |-> lg]
                            ELSE InsertUp(t, h2, path, d - 1, At(keys, mid), a.node,
                                          avail - 1, lg \o <<"split_internal">>)

\* The leaf step of put and the split it may start: [status, heap, root, grown, log]
InsertLeaf(t, h, path, key, value, avail) ==
    LET leaf == path.leaf
    IN IF NumKeys(h, leaf) > t.max_keys
       THEN [status |-> FAULT, log |-> <<>>]
       ELSE LET pos == ChildIndex(h[leaf].keys, key)
                keys == InsertAt(h[leaf].keys, pos, key)
                vals == InsertAt(h[leaf].vals, pos, value)
                total == Len(keys)
            IN IF total <= t.max_keys
               THEN [status |-> BPTREE_OK,
                     heap |-> [h EXCEPT ![leaf].keys = keys, ![leaf].vals = vals],
                     root |-> t.root, grown |-> 0, log |-> <<>>]
               ELSE LET a == bptree_node_alloc(h, TRUE, avail)
                        split_idx == (total + 1) \div 2
                        h2 == [a.heap EXCEPT
                                 ![leaf].keys = Slice(keys, 0, split_idx),
                                 ![leaf].vals = Slice(vals, 0, split_idx),
                                 ![leaf].next = a.node,
                                 ![a.node].keys = Slice(keys, split_idx, total - split_idx),
                                 ![a.node].vals = Slice(vals, split_idx, total - split_idx),
                                 ![a.node].next = h[leaf].next]
                    IN IF a.node = Nil
                       THEN [status |-> BPTREE_ALLOCATION_FAILURE, log |-> <<>>]
                       ELSE InsertUp(t, h2, path, Len(path.nodes), At(keys, split_idx),
                                     a.node, avail - 1, <<"split_leaf">>)

\* put: [status, tree, heap, log].  Nothing is written before every node the
\* call needs has been allocated: a failed allocation leaves the pre-call tree,
\* and log then holds the splits that had been prepared.
bptree_put_result(t, h, key, value, avail) ==
    LET path == Descend(h, t.root, key, Fuel)
        same == [status |-> FAULT, tree |-> t, heap |-> h, log |-> <<>>]
    IN IF ~path.ok THEN same
       ELSE IF LeafSearch(h[path.leaf].keys, key) >= 0
       THEN [same EXCEPT !.status = BPTREE_DUPLICATE_KEY]
       ELSE LET r == InsertLeaf(t, h, path, key, value, avail)
            IN IF r.status # BPTREE_OK
               THEN [same EXCEPT !.status = r.status, !.log = r.log]
               ELSE [status |-> BPTREE_OK,
                     tree |-> [t EXCEPT !.root = r.root, !.height = @ + r.grown,
                                        !.count = @ + 1],
                     heap |-> r.heap, log |-> r.log]

\* the repairs that leave a slot they never wrote live, or drop a child reference
DamagingRepairs ==
    {"borrow_right_leaf", "borrow_right_internal", "merge_left_internal",
     "merge_right_internal"}
Damaging(lg) == \E i \in 1..Len(lg) : lg[i] \in DamagingRepairs
Damage(lg) == IF damaged > 0 THEN damaged + 1 ELSE IF Damaging(lg) THEN 1 ELSE 0

Running == ret \notin {ABORTED, FAULT} /\ damaged <= MaxAfterDamage

\* the allocations one put can ask for: a split at every level and a new root
MaxAllocs == MaxNodes
\* what aligned_alloc may grant during one put: avail allocations, then NULL
AllocBudgets == 0..(MaxFailPoint - 1) \cup {MaxAllocs}

bptree_put(key, value, avail) ==
    /\ Running
    /\ LET r == bptree_put_result(tree, heap, key, value, avail)
       IN /\ tree' = r.tree
          /\ heap' = r.heap
          /\ op' = "put"
          /\ ret' = r.status
          /\ log' = r.log
          /\ damaged' = Damage(r.log)
          /\ build' = build
          /\ abs' = IF r.status = BPTREE_OK /\ key \notin DOMAIN abs
                    THEN [k \in DOMAIN abs \cup {key} |-> IF k = key THEN value ELSE abs[k]]
                    ELSE abs

\* --------------------------------------------------------------- get_range
\* the values of the keys <= high from slot i of leaf on, along the next links
RECURSIVE RangeWalk(_, _, _, _, _)
RangeWalk(h, leaf, i, high, fuel) ==
    IF leaf = Nil THEN [st |-> BPTREE_OK, out |-> <<>>]
    ELSE IF ~IsNode(h, leaf) \/ fuel = 0 THEN [st |-> FAULT, out |-> <<>>]
    ELSE IF i >= Len(h[leaf].keys) THEN RangeWalk(h, h[leaf].next, 0, high, fuel - 1)
    ELSE IF bptree_default_compare(At(h[leaf].keys, i), high) > 0
    THEN [st |-> BPTREE_OK, out |-> <<>>]
    ELSE LET r == RangeWalk(h, leaf, i + 1, high, fuel)
         IN [st |-> r.st, out |-> <<At(h[leaf].vals, i)>> \o r.out]

\* index of the first key >= low in a leaf's keys, or their number
LowerBound(keys, low) ==
    LET S == {i \in 0..(Len(keys) - 1) : bptree_default_compare(At(keys, i), low) >= 0}
    IN IF S = {} THEN Len(keys) ELSE Min(S)

\* get_range: [st, out]
bptree_get_range(t, h, low, high) ==
    LET p == Descend(h, t.root, low, Fuel)
    IN IF ~p.ok THEN [st |-> FAULT, out |-> <<>>]
       ELSE RangeWalk(h, p.leaf, LowerBound(h[p.leaf].keys, low), high, Fuel)

\* -------------------------------------------------------- invariant checker
\* lines 186-195: the first key of the leftmost leaf under node: [st, key]
RECURSIVE bptree_find_smallest_key(_, _, _)
bptree_find_smallest_key(h, node, fuel) ==
    IF node = Nil THEN [st |-> ABORTED, key |-> 0]        \* assert(node != NULL)
    ELSE IF ~IsNode(h, node) \/ fuel = 0 THEN [st |-> FAULT, key |-> 0]
    ELSE IF ~h[node].is_leaf
    THEN bptree_find_smallest_key(h, At(h[node].kids, 0), fuel - 1)
    ELSE IF Len(h[node].keys) > 0
    THEN [st |-> "ok", key |-> At(h[node].keys, 0)]
    ELSE [st |-> ABORTED, key |-> 0]                      \* assert(num_keys > 0)

\* lines 197-206: the last key of the rightmost leaf under node: [st, key]
RECURSIVE bptree_find_largest_key(_, _, _)
bptree_find_largest_key(h, node, fuel) ==
    IF node = Nil THEN [st |-> ABORTED, key |-> 0]
    ELSE IF ~IsNode(h, node) \/ fuel = 0 THEN [st |-> FAULT, key |-> 0]
    ELSE IF ~h[node].is_leaf
    THEN bptree_find_largest_key(h, At(h[node].kids, Len(h[node].keys)), fuel - 1)
    ELSE IF Len(h[node].keys) > 0
    THEN [st |-> "ok", key |-> At(h[node].keys, Len(h[node].keys) - 1)]
    ELSE [st |-> ABORTED, key |-> 0]

\* lines 247-252: keys strictly ascending
KeysSorted(keys) ==
    \A i \in 1..(Len(keys) - 1) : bptree_default_compare(keys[i], keys[i + 1]) < 0

\* a leaf check that takes a leaf holding exactly its floor for an underflow
CheckLeaf_at_floor(t, h, node, depth, ld) ==
    LET n == Len(h[node].keys)
        is_root == t.root = node
        ld2 == IF ld = -1 THEN depth ELSE ld
    IN IF ld # -1 /\ depth # ld THEN [r |-> "false", ld |-> ld]
       ELSE IF ~is_root /\ (n <= t.min_leaf_keys \/ n > t.max_keys)
       THEN [r |-> "false", ld |-> ld2]
       ELSE [r |-> "true", ld |-> ld2]

\* lines 253-277: a leaf.  r is "true", "false", ABORTED or FAULT; ld is the
\* depth of the first leaf seen, -1 before any.
CheckLeaf(t, h, node, depth, ld) ==
    LET n == Len(h[node].keys)
        is_root == t.root = node
        ld2 == IF ld = -1 THEN depth ELSE ld
    IN IF ld # -1 /\ depth # ld THEN [r |-> "false", ld |-> ld]
       ELSE IF ~is_root /\ (n < t.min_leaf_keys \/ n > t.max_keys)
       THEN [r |-> "false", ld |-> ld2]
       ELSE IF is_root /\ (n > t.max_keys /\ t.count > 0) THEN [r |-> "false", ld |-> ld2]
       ELSE IF is_root /\ t.count = 0 /\ n # 0 THEN [r |-> "false", ld |-> ld2]
       ELSE [r |-> "true", ld |-> ld2]

\* lines 303-309: max(child[0]) < key[0]
CheckChild0Bound(t, h, node, fuel) ==
    LET c0 == At(h[node].kids, 0)
        mx == bptree_find_largest_key(h, c0, fuel)
    IN IF ~(Len(h[node].keys) > 0 /\ (Len(h[c0].keys) > 0 \/ ~h[c0].is_leaf)) THEN "true"
       ELSE IF mx.st # "ok" THEN mx.st
       ELSE IF bptree_default_compare(mx.key, At(h[node].keys, 0)) >= 0 THEN "false"
       ELSE "true"

\* a separator check that takes the largest key of the child for its smallest
CheckChildBounds_largest(t, h, node, i, fuel) ==
    LET keys == h[node].keys
        c == At(h[node].kids, i)
        mx == bptree_find_largest_key(h, c, fuel)
    IN IF Len(h[c].keys) > 0 \/ ~h[c].is_leaf
       THEN IF mx.st # "ok" THEN mx.st
            ELSE IF bptree_default_compare(At(keys, i - 1), mx.key) # 0 THEN "false"
            ELSE IF i >= Len(keys) THEN "true"
            ELSE IF bptree_default_compare(mx.key, At(keys, i)) >= 0 THEN "false"
            ELSE "true"
       ELSE IF h[c].is_leaf /\ Len(h[c].keys) = 0 /\ t.count > 0 THEN "false"
       ELSE "true"

\* lines 322-339: key[i-1] = min(child[i]), and max(child[i]) < key[i] for i < n
CheckChildBounds(t, h, node, i, fuel) ==
    LET keys == h[node].keys
        c == At(h[node].kids, i)
        mn == bptree_find_smallest_key(h, c, fuel)
        mx == bptree_find_largest_key(h, c, fuel)
    IN IF Len(h[c].keys) > 0 \/ ~h[c].is_leaf
       THEN IF mn.st # "ok" THEN mn.st
            ELSE IF bptree_default_compare(At(keys, i - 1), mn.key) # 0 THEN "false"
            ELSE IF i >= Len(keys) THEN "true"
            ELSE IF mx.st # "ok" THEN mx.st
            ELSE IF bptree_default_compare(mx.key, At(keys, i)) >= 0 THEN "false"
            ELSE "true"
       ELSE IF h[c].is_leaf /\ Len(h[c].keys) = 0 /\ t.count > 0 THEN "false"
       ELSE "true"

\* lines 241-354.  CheckKids is the loop of lines 316-343 from child i on.
RECURSIVE bptree_check_invariants_node(_, _, _, _, _, _)
RECURSIVE CheckKids(_, _, _, _, _, _, _)
CheckKids(t, h, node, i, depth, ld, fuel) ==
    IF i > Len(h[node].keys) THEN [r |-> "true", ld |-> ld]
    ELSE LET c == At(h[node].kids, i)
         IN IF c = Nil THEN [r |-> "false", ld |-> ld]
            ELSE IF ~IsNode(h, c) THEN [r |-> FAULT, ld |-> ld]
            ELSE LET b == CheckChildBounds(t, h, node, i, fuel)
                     sub == bptree_check_invariants_node(t, h, c, depth + 1, ld, fuel - 1)
                 IN IF b # "true" THEN [r |-> b, ld |-> ld]
                    ELSE IF sub.r # "true" THEN sub
                    ELSE CheckKids(t, h, node, i + 1, depth, sub.ld, fuel)

bptree_check_invariants_node(t, h, node, depth, ld, fuel) ==
    IF node = Nil THEN [r |-> "false", ld |-> ld]
    ELSE IF ~IsNode(h, node) \/ fuel = 0 THEN [r |-> FAULT, ld |-> ld]
    ELSE IF ~KeysSorted(h[node].keys) THEN [r |-> "false", ld |-> ld]
    ELSE IF h[node].is_leaf THEN CheckLeaf(t, h, node, depth, ld)
    ELSE LET n == Len(h[node].keys)
             is_root == t.root = node
             c0 == At(h[node].kids, 0)
             b0 == CheckChild0Bound(t, h, node, fuel)
             sub0 == bptree_check_invariants_node(t, h, c0, depth + 1, ld, fuel - 1)
         IN IF ~is_root /\ (n < t.min_internal_keys \/ n > t.max_keys)
            THEN [r |-> "false", ld |-> ld]
            ELSE IF is_root /\ t.count > 0 /\ n < 1 THEN [r |-> "false", ld |-> ld]
            ELSE IF is_root /\ n > t.max_keys THEN [r |-> "false", ld |-> ld]
            ELSE IF c0 = Nil THEN [r |-> "false", ld |-> ld]
            ELSE IF ~IsNode(h, c0) THEN [r |-> FAULT, ld |-> ld]
            ELSE IF b0 # "true" THEN [r |-> b0, ld |-> ld]
            ELSE IF sub0.r # "true" THEN sub0
            ELSE CheckKids(t, h, node, 1, depth, sub0.ld, fuel)

\* check_invariants: the recursive check from the root, at depth 0, no leaf seen
bptree_check_invariants(t, h) ==
    bptree_check_invariants_node(t, h, t.root, 0, -1, Fuel).r

\* ------------------------------------------------------------- rebalancing
\* One outcome of a step of the walk: the heap it leaves and how it ended
\* ("ok", ABORTED or FAULT).
Ok(h) == [h |-> h, st |-> "ok"]
Stop(h, st) == [h |-> h, st |-> st]

MinKeysOf(t, h, n) == IF h[n].is_leaf THEN t.min_leaf_keys ELSE t.min_internal_keys
Front(s) == SubSeq(s, 1, Len(s) - 1)
Last(s) == s[Len(s)]

\* lines 443-463: the last pair of the left sibling moves to slot 0 of child
BorrowLeftLeaf(t, h, parent, child_idx) ==
    LET child == At(h[parent].kids, child_idx)
        left == At(h[parent].kids, child_idx - 1)
        moved == Last(h[left].keys)
        h1 == [h EXCEPT ![child].keys = <<moved>> \o @,
                        ![child].vals = <<moved>> \o @]   \* line 456 stores left_keys[...]
        h2 == [h1 EXCEPT ![left].keys = Front(@), ![left].vals = Front(@)]
    IN {Ok([h2 EXCEPT ![parent].keys = SetAt(@, child_idx - 1, At(h2[child].keys, 0))])}

\* lines 464-485: the separator comes down, the left sibling's last key goes up
BorrowLeftInternal(t, h, parent, child_idx) ==
    LET child == At(h[parent].kids, child_idx)
        left == At(h[parent].kids, child_idx - 1)
        h1 == [h EXCEPT ![child].keys = <<At(h[parent].keys, child_idx - 1)>> \o @,
                        ![child].kids = <<Last(h[left].kids)>> \o @]
        h2 == [h1 EXCEPT ![parent].keys = SetAt(@, child_idx - 1, Last(h1[left].keys))]
    IN {Ok([h2 EXCEPT ![left].keys = Front(@), ![left].kids = Front(@)])}

\* lines 496-517: the first pair of the right sibling moves to the end of child;
\* line 507 then increments the sibling's count, so the shift of lines 510-511
\* brings two slots from beyond its keys into it.
BorrowRightLeaf(t, h, parent, child_idx) ==
    LET child == At(h[parent].kids, child_idx)
        right == At(h[parent].kids, child_idx + 1)
        h1 == [h EXCEPT ![child].keys = Append(@, At(h[right].keys, 0)),
                        ![child].vals = Append(@, At(h[right].vals, 0))]
        n == Len(h1[right].keys) + 1
    IN IF n > t.max_keys + 1
       THEN {Stop(h, FAULT)}      \* the shift writes past the arrays
       ELSE {Ok([[h1 EXCEPT ![right].keys = Tail(@) \o <<g1, g2>>,
                            ![right].vals = Tail(@) \o <<JunkVal, JunkVal>>]
                   EXCEPT ![parent].keys = SetAt(@, child_idx, At(h1[right].keys, 1))])
               : g1 \in IndetKey, g2 \in IndetKey}

\* lines 518-538: right_children is initialised from itself (line 523), so it is
\* an indeterminate address: either no usable address, or by chance the sibling's
\* child array.  In the second case line 534 shifts one reference too few.
BorrowRightInternal(t, h, parent, child_idx) ==
    LET child == At(h[parent].kids, child_idx)
        right == At(h[parent].kids, child_idx + 1)
        h1 == [h EXCEPT ![child].keys = Append(@, At(h[parent].keys, child_idx)),
                        ![child].kids = Append(@, At(h[right].kids, 0))]
        h2 == [h1 EXCEPT ![parent].keys = SetAt(@, child_idx, At(h1[right].keys, 0))]
        m == Len(h2[right].keys) - 1
        kids == h2[right].kids
        shifted == [j \in 1..(m + 1) |-> IF j <= m THEN kids[j + 1] ELSE kids[j]]
    IN {Stop(h, FAULT),
        Ok([h2 EXCEPT ![right].keys = Tail(@), ![right].kids = shifted])}

\* the parent after its child at child_idx was merged into the one at child_idx - 1
\* (lines 601-605)
ParentAfterMergeLeft(h, parent, child_idx) ==
    [h EXCEPT ![parent].keys = RemoveAt(@, child_idx - 1),
              ![parent].kids = RemoveAt(@, child_idx)]

\* lines 548-567
MergeLeftLeaf(t, h, parent, child_idx) ==
    LET child == At(h[parent].kids, child_idx)
        left == At(h[parent].kids, child_idx - 1)
        combined_keys == Len(h[left].keys) + Len(h[child].keys)
        h1 == [h EXCEPT ![left].keys = @ \o h[child].keys,
                        ![left].vals = @ \o h[child].vals,
                        ![left].next = h[child].next]
        h2 == [h1 EXCEPT ![child] = FreeNode]
    IN IF combined_keys > t.max_keys
       THEN {Stop(h, ABORTED)}
       ELSE {Ok(ParentAfterMergeLeft(h2, parent, child_idx))}

\* an internal merge whose guard is off by one: a node filled exactly to
\* max_keys is taken for an overflow
MergeLeftInternal_guard_ge(t, h, parent, child_idx) ==
    LET child == At(h[parent].kids, child_idx)
        left == At(h[parent].kids, child_idx - 1)
        combined_keys == Len(h[left].keys) + 1 + Len(h[child].keys)
        keys == h[left].keys \o <<At(h[parent].keys, child_idx - 1)>> \o h[child].keys
        kids == h[left].kids \o h[child].kids
    IN IF combined_keys >= t.max_keys
       THEN {[h |-> h, st |-> ABORTED]}
       ELSE {[h |-> [[[h EXCEPT ![left].keys = keys \o <<g>>, ![left].kids = kids \o <<p>>]
                         EXCEPT ![child] = FreeNode]
                         EXCEPT ![parent].keys = RemoveAt(@, child_idx - 1),
                                ![parent].kids = RemoveAt(@, child_idx)],
               st |-> "ok"]
               : g \in IndetKey, p \in IndetPtr}

\* lines 568-599: line 596 stores combined_children as the key count, which makes
\* one more key slot and one more child slot of the left sibling live.
MergeLeftInternal(t, h, parent, child_idx) ==
    LET child == At(h[parent].kids, child_idx)
        left == At(h[parent].kids, child_idx - 1)
        combined_keys == Len(h[left].keys) + 1 + Len(h[child].keys)
        combined_children == (Len(h[left].keys) + 1) + (Len(h[child].keys) + 1)
        keys == h[left].keys \o <<At(h[parent].keys, child_idx - 1)>> \o h[child].keys
        kids == h[left].kids \o h[child].kids
    IN IF combined_keys > t.max_keys \/ combined_children > t.max_keys + 1
       THEN {Stop(h, ABORTED)}
       ELSE {Ok(ParentAfterMergeLeft(
                   [[h EXCEPT ![left].keys = keys \o <<g>>,
                              ![left].kids = kids \o <<p>>]
                       EXCEPT ![child] = FreeNode],
                   parent, child_idx))
               : g \in IndetKey, p \in IndetPtr}

\* lines 611-630 and 662-667
MergeRightLeaf(t, h, parent, child_idx) ==
    LET child == At(h[parent].kids, child_idx)
        right == At(h[parent].kids, child_idx + 1)
        combined_keys == Len(h[child].keys) + Len(h[right].keys)
        h1 == [h EXCEPT ![child].keys = @ \o h[right].keys,
                        ![child].vals = @ \o h[right].vals,
                        ![child].next = h[right].next]
        h2 == [h1 EXCEPT ![right] = FreeNode]
    IN IF combined_keys > t.max_keys
       THEN {Stop(h, ABORTED)}
       ELSE {Ok([h2 EXCEPT ![parent].keys = RemoveAt(@, child_idx),
                           ![parent].kids = RemoveAt(@, child_idx + 1)])}

\* lines 631-667: right_children is again initialised from itself (line 635);
\* line 660 clears the parent's slot of the surviving child, not the sibling's.
MergeRightInternal(t, h, parent, child_idx) ==
    LET child == At(h[parent].kids, child_idx)
        right == At(h[parent].kids, child_idx + 1)
        combined_keys == Len(h[child].keys) + 1 + Len(h[right].keys)
        combined_children == Len(h[child].keys) + 1 + Len(h[right].keys) + 1
        h1 == [h EXCEPT ![child].keys = @ \o <<At(h[parent].keys, child_idx)>>
                                          \o h[right].keys,
                        ![child].kids = @ \o h[right].kids]
        h2 == [h1 EXCEPT ![right] = FreeNode]
        h3 == [h2 EXCEPT ![parent].kids = SetAt(@, child_idx, Nil)]
    IN IF combined_keys > t.max_keys \/ combined_children > t.max_keys + 1
       THEN {Stop(h, ABORTED)}
       ELSE {Stop(h, FAULT),
             Ok([h3 EXCEPT ![parent].keys = RemoveAt(@, child_idx),
                           ![parent].kids = RemoveAt(@, child_idx + 1)])}

\* a repair choice that merges before it has asked the right sibling for a key
RepairAt_merge_early(t, h, parent, child_idx) ==
    LET kids == h[parent].kids
        child == At(kids, child_idx)
        left == At(kids, child_idx - 1)
        right == At(kids, child_idx + 1)
        has_left == child_idx > 0
        has_right == child_idx < Len(h[parent].keys)
    IN IF ~IsNode(h, child) THEN "fault"
       ELSE IF Len(h[child].keys) >= (IF h[child].is_leaf THEN t.min_leaf_keys
                                       ELSE t.min_internal_keys) THEN "none"
       ELSE IF has_left /\ ~IsNode(h, left) THEN "fault"
       ELSE IF has_left /\ Len(h[left].keys) > (IF h[left].is_leaf THEN t.min_leaf_keys
                                                ELSE t.min_internal_keys)
       THEN "borrow_left"
       ELSE IF has_left THEN "merge_left"
       ELSE IF has_right /\ ~IsNode(h, right) THEN "fault"
       ELSE IF has_right /\ Len(h[right].keys) > (IF h[right].is_leaf THEN t.min_leaf_keys
                                                  ELSE t.min_internal_keys)
       THEN "borrow_right"
       ELSE IF has_right THEN "merge_right"
       ELSE "fault"

\* One level of the loop of bptree_rebalance_up (lines 421-671): which repair the
\* level takes.  "none": the child has its floor (line 429).
RepairAt(t, h, parent, child_idx) ==
    LET kids == h[parent].kids
        child == At(kids, child_idx)
        left == At(kids, child_idx - 1)
        right == At(kids, child_idx + 1)
        has_left == child_idx > 0
        has_right == child_idx < Len(h[parent].keys)
    IN IF ~IsNode(h, child) THEN "fault"
       ELSE IF Len(h[child].keys) >= MinKeysOf(t, h, child) THEN "none"
       ELSE IF has_left /\ ~IsNode(h, left) THEN "fault"
       ELSE IF has_left /\ Len(h[left].keys) > MinKeysOf(t, h, left) THEN "borrow_left"
       ELSE IF has_right /\ ~IsNode(h, right) THEN "fault"
       ELSE IF has_right /\ Len(h[right].keys) > MinKeysOf(t, h, right) THEN "borrow_right"
       ELSE IF has_left THEN "merge_left"
       ELSE IF has_right THEN "merge_right"
       ELSE "fault"    \* line 609 reads a child slot that is not live

\* the sibling a repair works on
SiblingOf(h, parent, child_idx, repair) ==
    IF repair \in {"borrow_left", "merge_left"}
    THEN At(h[parent].kids, child_idx - 1)
    ELSE At(h[parent].kids, child_idx + 1)

\* the outcomes of the repair chosen at one level
ApplyRepair(t, h, parent, child_idx, repair) ==
    LET child == At(h[parent].kids, child_idx)
        leaf == h[child].is_leaf
    IN IF h[SiblingOf(h, parent, child_idx, repair)].is_leaf # leaf
       THEN {Stop(h, FAULT)}   \* the sibling's arrays are read as the other kind
       ELSE CASE repair = "borrow_left" ->
                   IF leaf THEN BorrowLeftLeaf(t, h, parent, child_idx)
                   ELSE BorrowLeftInternal(t, h, parent, child_idx)
              [] repair = "borrow_right" ->
                   IF leaf THEN BorrowRightLeaf(t, h, parent, child_idx)
                   ELSE BorrowRightInternal(t, h, parent, child_idx)
              [] repair = "merge_left" ->
                   IF leaf THEN MergeLeftLeaf(t, h, parent, child_idx)
                   ELSE MergeLeftInternal(t, h, parent, child_idx)
              [] repair = "merge_right" ->
                   IF leaf THEN MergeRightLeaf(t, h, parent, child_idx)
                   ELSE MergeRightInternal(t, h, parent, child_idx)

\* the debug message of a repair
RepairName(h, parent, child_idx, repair) ==
    repair \o (IF h[At(h[parent].kids, child_idx)].is_leaf THEN "_leaf" ELSE "_internal")

\* a loop that leaves after its first repair, whatever the repair was
RebalanceLoop_one_level(t, h, path, d, lg) ==
    IF d = 0 THEN {[h |-> h, st |-> "ok", log |-> lg]}
    ELSE LET parent == path.nodes[d]
             child_idx == path.idx[d]
             repair == IF IsNode(h, parent) THEN RepairAt(t, h, parent, child_idx)
                       ELSE "fault"
         IN IF repair = "fault" THEN {[h |-> h, st |-> FAULT, log |-> lg]}
            ELSE IF repair = "none" THEN {[h |-> h, st |-> "ok", log |-> lg]}
            ELSE {[h |-> o.h, st |-> o.st,
                   log |-> Append(lg, RepairName(h, parent, child_idx, repair))]
                    : o \in ApplyRepair(t, h, parent, child_idx, repair)}

\* The loop of lines 421-671, from level d of the path (1 = the root) upwards:
\* a borrow or a child with its floor ends it, a merge goes one level up.
RECURSIVE RebalanceLoop(_, _, _, _, _)
RebalanceLoop(t, h, path, d, lg) ==
    IF d = 0 THEN {[h |-> h, st |-> "ok", log |-> lg]}
    ELSE LET parent == path.nodes[d]
             child_idx == path.idx[d]
             repair == IF IsNode(h, parent) THEN RepairAt(t, h, parent, child_idx)
                       ELSE "fault"
         IN IF repair = "fault" THEN {[h |-> h, st |-> FAULT, log |-> lg]}
            ELSE IF repair = "none" THEN {[h |-> h, st |-> "ok", log |-> lg]}
            ELSE LET lg2 == Append(lg, RepairName(h, parent, child_idx, repair))
                     outs == ApplyRepair(t, h, parent, child_idx, repair)
                 IN UNION {IF o.st # "ok" \/ repair \in {"borrow_left", "borrow_right"}
                           THEN {[h |-> o.h, st |-> o.st, log |-> lg2]}
                           ELSE RebalanceLoop(t, o.h, path, d - 1, lg2) : o \in outs}

\* lines 673-678: the root shrink.  The condition is the source's; the source
\* ends before the body, which is the design document's: the sole remaining
\* child becomes the root, the old root is freed, height decreases by one.
RootMustShrink(t, h) ==
    t.root # Nil /\ ~h[t.root].is_leaf /\ Len(h[t.root].keys) = 0

RootShrink(t, h) ==
    [tree |-> [t EXCEPT !.root = At(h[t.root].kids, 0), !.height = @ - 1],
     heap |-> [h EXCEPT ![t.root] = FreeNode]]

\* bptree_rebalance_up: the outcomes [tree, heap, st, log]
bptree_rebalance_up(t, h, path) ==
    {IF o.st # "ok" THEN [tree |-> t, heap |-> o.h, st |-> o.st, log |-> o.log]
     ELSE IF t.root # Nil /\ ~IsNode(o.h, t.root)
     THEN [tree |-> t, heap |-> o.h, st |-> FAULT, log |-> o.log]
     ELSE IF RootMustShrink(t, o.h)
     THEN LET r == RootShrink(t, o.h)
          IN [tree |-> r.tree, heap |-> r.heap, st |-> "ok",
              log |-> Append(o.log, "root_shrink")]
     ELSE [tree |-> t, heap |-> o.h, st |-> "ok", log |-> o.log]
       : o \in RebalanceLoop(t, h, path, Len(path.nodes), <<>>)}

\* ------------------------------------------------------------------ remove
\* remove: the outcomes [status, tree, heap, log].  A call that does not return
\* (ABORTED, FAULT) leaves no tree to speak of: the pre-call one is kept.
bptree_remove_results(t, h, key) ==
    LET path == Descend(h, t.root, key, Fuel)
        same == [status |-> FAULT, tree |-> t, heap |-> h, log |-> <<>>]
    IN IF ~path.ok THEN {same}
       ELSE LET leaf == path.leaf
                i == LeafSearch(h[leaf].keys, key)
                h1 == [h EXCEPT ![leaf].keys = RemoveAt(@, i), ![leaf].vals = RemoveAt(@, i)]
                t1 == [t EXCEPT !.count = @ - 1]
            IN IF i < 0 THEN {[same EXCEPT !.status = BPTREE_KEY_NOT_FOUND]}
               ELSE IF Len(path.nodes) = 0 \/ Len(h1[leaf].keys) >= t.min_leaf_keys
               THEN {[status |-> BPTREE_OK, tree |-> t1, heap |-> h1, log |-> <<>>]}
               ELSE {IF o.st = "ok"
                     THEN [status |-> BPTREE_OK, tree |-> o.tree, heap |-> o.heap,
                           log |-> o.log]
                     ELSE [same EXCEPT !.status = o.st, !.log = o.log]
                       : o \in bptree_rebalance_up(t1, h1, path)}

bptree_remove(key) ==
    /\ Running
    /\ \E r \in bptree_remove_results(tree, heap, key) :
          /\ tree' = r.tree
          /\ heap' = r.heap
          /\ op' = "remove"
          /\ ret' = r.status
          /\ log' = r.log
          /\ damaged' = Damage(r.log)
          /\ build' = build
          /\ abs' = IF r.status = BPTREE_OK
                    THEN [k \in DOMAIN abs \ {key} |-> abs[k]]
                    ELSE abs

\* ------------------------------------------------------------ observations
\* What the claims speak of: the nodes and leaves under the root, the keys
\* under a node, the leaf chain.  Child slots that hold no node are passed over.
RECURSIVE NodesUnder(_, _, _)
NodesUnder(h, n, fuel) ==
    IF ~IsNode(h, n) \/ fuel = 0 THEN {}
    ELSE IF h[n].is_leaf THEN {n}
    ELSE {n} \cup UNION {NodesUnder(h, h[n].kids[j], fuel - 1) : j \in 1..Len(h[n].kids)}

LeavesUnder(h, n) == {l \in NodesUnder(h, n, Fuel) : h[l].is_leaf}
InternalsUnder(h, n) == {l \in NodesUnder(h, n, Fuel) : ~h[l].is_leaf}
KeysIn(h, n) == {h[n].keys[j] : j \in 1..Len(h[n].keys)}
KeysUnder(h, n) == UNION {KeysIn(h, l) : l \in LeavesUnder(h, n)}

\* the depths at which leaves are found under n, n being at depth d
RECURSIVE LeafDepths(_, _, _, _)
LeafDepths(h, n, d, fuel) ==
    IF ~IsNode(h, n) \/ fuel = 0 THEN {}
    ELSE IF h[n].is_leaf THEN {d}
    ELSE UNION {LeafDepths(h, h[n].kids[j], d + 1, fuel - 1) : j \in 1..Len(h[n].kids)}

RECURSIVE LeftmostLeaf(_, _, _)
LeftmostLeaf(h, n, fuel) ==
    IF ~IsNode(h, n) \/ fuel = 0 THEN Nil
    ELSE IF h[n].is_leaf THEN n
    ELSE LeftmostLeaf(h, At(h[n].kids, 0), fuel - 1)

\* the leaves met from leaf on along the next links; a link to no node ends the
\* chain with that link as its last element
RECURSIVE Chain(_, _, _)
Chain(h, leaf, fuel) ==
    IF leaf = Nil \/ fuel = 0 THEN <<>>
    ELSE IF ~IsNode(h, leaf) THEN <<leaf>>
    ELSE <<leaf>> \o Chain(h, h[leaf].next, fuel - 1)

LeafChain == Chain(heap, LeftmostLeaf(heap, tree.root, Fuel), Fuel)

RECURSIVE ChainKeys(_, _)
ChainKeys(h, c) ==
    IF c = <<>> THEN <<>>
    ELSE (IF IsNode(h, Head(c)) THEN h[Head(c)].keys ELSE <<>>) \o ChainKeys(h, Tail(c))

StrictlyAscending(s) == \A i \in 1..(Len(s) - 1) : s[i] < s[i + 1]
Returned == ret \notin {ABORTED, FAULT}
Stored == DOMAIN abs
\* the values of the stored keys in low..high, in ascending key order
RECURSIVE AbsRange(_, _)
AbsRange(low, high) ==
    IF low > high THEN <<>>
    ELSE (IF low \in Stored THEN <<abs[low]>> ELSE <<>>) \o AbsRange(low + 1, high)

Init ==
    /\ \E mk \in MinFanout..MaxFanout :
          \E minl \in MinChoices(mk), mini \in MinChoices(mk) :
             bptree_create(mk, minl, mini)
    /\ op = "create"
    /\ ret = BPTREE_OK
    /\ log = <<>>
    /\ abs = <<>>
    /\ damaged = 0
    /\ build = DefaultBuild

Put == \E k \in Keys : \E v \in ValuesFor(k) : \E avail \in AllocBudgets :
          bptree_put(k, v, avail)

Remove == \E k \in Keys : bptree_remove(k)

NextPut == Put
SpecPut == Init /\ [][NextPut]_vars

Next == Put \/ Remove
Spec == Init /\ [][Next]_vars

\* ------------------------------------------------------------------ claims
\* what get must return for key k, by the history of calls
Expected(k) ==
    IF k \in Stored THEN [status |-> BPTREE_OK, out |-> abs[k]]
    ELSE [status |-> BPTREE_KEY_NOT_FOUND, out |-> JunkVal]

\* C1: after any sequence of puts with distinct keys on a new tree (leaf,
\* internal and root splits included), get returns the value put with every
\* inserted key and KEY_NOT_FOUND for every key never inserted.
C1_GetAfterPuts ==
    \A k \in Keys : bptree_get(tree, heap, k) = Expected(k)

\* C1 witness: a put has just split a leaf, an internal node and the root,
\* growing the tree to height 2.
C1_Witness ==
    /\ op = "put" /\ ret = BPTREE_OK
    /\ log = <<"split_leaf", "split_internal", "new_root">>
    /\ tree.height = 2

\* C2: check_invariants() is true after every completed put or remove.
C2_CheckInvariantsHolds ==
    Returned => bptree_check_invariants(tree, heap) = "true"

\* C3: remove(k) of a stored key k returns OK, after it get(k) returns
\* KEY_NOT_FOUND, and count is one less than before.
C3_RemoveStored ==
    [][\A k \in Keys :
         (bptree_remove(k) /\ k \in Stored)
            => /\ ret' = BPTREE_OK
               /\ bptree_get(tree', heap', k).status = BPTREE_KEY_NOT_FOUND
               /\ tree'.count = tree.count - 1]_vars

\* C4: the tree refines the key -> value map of the calls made: after any
\* completed put or remove, get(k) returns the value of the latest successful
\* put(k) not removed since, and KEY_NOT_FOUND for every other key; a remove
\* that rebalances changes the answer for no other key.
C4_RefinesMap ==
    Returned => \A k \in Keys : bptree_get(tree, heap, k) = Expected(k)

\* C5: put(k, v) with k stored returns DUPLICATE_KEY and changes neither count,
\* height, any node, nor the value got for any key.
C5_DuplicatePut ==
    [][\A k \in Keys : \A v \in ValuesFor(k) : \A avail \in AllocBudgets :
         (bptree_put(k, v, avail) /\ k \in Stored)
            => /\ ret' = BPTREE_DUPLICATE_KEY
               /\ tree' = tree
               /\ heap' = heap]_vars

\* C6: remove(k) with k not stored (the empty tree included) returns
\* KEY_NOT_FOUND, changes neither count, height nor any node, and takes no
\* rebalancing step.
C6_RemoveMissing ==
    [][\A k \in Keys :
         (bptree_remove(k) /\ k \notin Stored)
            => /\ ret' = BPTREE_KEY_NOT_FOUND
               /\ tree' = tree
               /\ heap' = heap
               /\ log' = <<>>]_vars

\* C7: for low <= high, get_range(low, high) returns the values of the stored
\* keys in low..high, one per key, in ascending key order (none: empty).
C7_RangeExact ==
    Returned => \A low \in Keys : \A high \in low..MaxKey :
        bptree_get_range(tree, heap, low, high)
            = [st |-> BPTREE_OK, out |-> AbsRange(low, high)]

\* C8: after every completed put or remove the next links from the leftmost
\* leaf visit every leaf under the root once, reach no freed leaf, and yield the
\* stored keys once each in strictly ascending order, count of them.
C8_LeafChain ==
    Returned =>
        LET c == LeafChain
            ks == ChainKeys(heap, c)
        IN /\ \A i \in 1..Len(c) : IsNode(heap, c[i]) /\ heap[c[i]].is_leaf
           /\ \A i, j \in 1..Len(c) : c[i] = c[j] => i = j
           /\ {c[i] : i \in 1..Len(c)} = LeavesUnder(heap, tree.root)
           /\ StrictlyAscending(ks)
           /\ {ks[i] : i \in 1..Len(ks)} = Stored
           /\ Len(ks) = tree.count

\* C9: after every completed put or remove, in every internal node with keys K
\* and children C: keys under C[0] < K[0]; min under C[i] = K[i-1] for
\* 1 <= i <= n; max under C[i] < K[i] for 1 <= i < n.
SeparatorsExact(h, n) ==
    LET K == h[n].keys
        C == h[n].kids
        under(i) == KeysUnder(h, At(C, i))
    IN /\ Len(K) > 0 => \A k \in under(0) : k < At(K, 0)
       /\ \A i \in 1..Len(K) : under(i) # {} /\ Min(under(i)) = At(K, i - 1)
       /\ \A i \in 1..(Len(K) - 1) : Max(under(i)) < At(K, i)

C9_Separators ==
    Returned => \A n \in InternalsUnder(heap, tree.root) : SeparatorsExact(heap, n)

\* C10: after every completed put or remove every leaf is at depth height; a
\* call adds one to height exactly when it splits the root and takes one off
\* exactly when it collapses the root.
InLog(lg, e) == \E i \in 1..Len(lg) : lg[i] = e

C10_HeightIsDepth ==
    [][Returned' =>
          /\ LeafDepths(heap', tree'.root, 0, Fuel) = {tree'.height}
          /\ tree'.height = tree.height + (IF InLog(log', "new_root") THEN 1 ELSE 0)
                                        - (IF InLog(log', "root_shrink") THEN 1 ELSE 0)]_vars

\* C11: after every completed put or remove, count equals the sum of the key
\* counts of the leaves under the root, which equals the number of keys stored.
RECURSIVE SumKeyCounts(_, _)
SumKeyCounts(h, leaves) ==
    IF leaves = {} THEN 0
    ELSE LET l == CHOOSE x \in leaves : TRUE
         IN Len(h[l].keys) + SumKeyCounts(h, leaves \ {l})

C11_CountIsLeafSum ==
    Returned => /\ tree.count = SumKeyCounts(heap, LeavesUnder(heap, tree.root))
                /\ tree.count = Cardinality(Stored)

\* C12: a put during which a node allocation fails (at the leaf split, at the
\* split of an ancestor or at the new root) returns ALLOCATION_FAILURE and leaves
\* the tree as it was: key not stored, count, height and every node unchanged,
\* no node with more than max_keys keys.
AllocsNeeded(t, h, key, value) ==
    LET r == bptree_put_result(t, h, key, value, MaxAllocs)
    IN IF r.status = BPTREE_OK THEN Len(r.log) ELSE 0

C14_NoMergeOverflow ==
    /\ ret # ABORTED
    /\ Running => \A k \in Keys :
          \A r \in bptree_remove_results(tree, heap, k) : r.status # ABORTED

\* C14 witness: a remove has merged two leaves and then two internal nodes, the
\* second merge filling the survivor exactly to max_keys.
C14_Witness ==
    /\ op = "remove" /\ ret = BPTREE_OK
    /\ log = <<"merge_right_leaf", "merge_left_internal", "root_shrink">>
    /\ tree.max_keys = 2

\* ------------------------------------------------------------- read calls
\* get, contains, get_range, get_stats and check_invariants as calls.  The
\* four that the header only declares take the tree as const (lines 114-126).
\* What the checker leaves in memory is HeapAfterCheck.
ReadOps == {"get", "contains", "get_range", "get_stats", "check_invariants"}

\* a checker that repairs what it rejects: it empties the root it found invalid
HeapAfterCheck_repairs(t, h) ==
    IF IsNode(h, t.root) /\ bptree_check_invariants(t, h) = "false"
    THEN [h EXCEPT ![t.root].keys = <<>>, ![t.root].vals = <<>>]
    ELSE h

\* lines 241-354 and 186-206: bptree_check_invariants_node, bptree_find_smallest_key
\* and bptree_find_largest_key store to nothing but *leaf_depth (line 255) and
\* their own locals: the heap after the check is the heap before it.
HeapAfterCheck(t, h) == h

\* bptree_count_nodes as the design document has it: a full traversal
bptree_get_stats(t, h) ==
    [count |-> t.count, height |-> t.height,
     node_count |-> Cardinality(NodesUnder(h, t.root, Fuel))]

Get ==
    \E k \in Keys :
       /\ op' = "get" /\ ret' = bptree_get(tree, heap, k).status
       /\ UNCHANGED <<tree, heap, log, abs, damaged, build>>

Contains ==
    \E k \in Keys :
       /\ op' = "contains"
       /\ ret' = (IF Descend(heap, tree.root, k, Fuel).ok
                  THEN (IF bptree_contains(tree, heap, k) THEN "true" ELSE "false")
                  ELSE FAULT)
       /\ UNCHANGED <<tree, heap, log, abs, damaged, build>>

GetRange ==
    \E low \in Keys : \E high \in low..MaxKey :
       /\ op' = "get_range" /\ ret' = bptree_get_range(tree, heap, low, high).st
       /\ UNCHANGED <<tree, heap, log, abs, damaged, build>>

GetStats ==
    /\ op' = "get_stats"
    /\ ret' = (IF bptree_get_stats(tree, heap).count = tree.count
               THEN BPTREE_OK ELSE FAULT)
    /\ UNCHANGED <<tree, heap, log, abs, damaged, build>>

CheckInvariants ==
    /\ op' = "check_invariants"
    /\ ret' = bptree_check_invariants(tree, heap)
    /\ heap' = HeapAfterCheck(tree, heap)
    /\ UNCHANGED <<tree, log, abs, damaged, build>>

Read ==
    /\ Running
    /\ (Get \/ Contains \/ GetRange \/ GetStats \/ CheckInvariants)

\* ------------------------------------------------------------ tree shapes
\* Trees that are laid out as the structures of lines 82-97 allow but that no
\* sequence of calls need produce: any key sequence in a node (unsorted and
\* over-full ones included), leaves at different depths, and every floor from
\* 1 to max_keys.  A shape is a leaf root, or an internal root over two or
\* three subtrees; a subtree is a leaf or an internal node over two leaves.
SeqsUpTo(S, n) == UNION {[1..m -> S] : m \in 0..n}
ShapeKeys == 1..ShapeMaxKey
ShapeFanout == MinFanout

LeafShapes(n) == [leaf : {TRUE}, keys : SeqsUpTo(ShapeKeys, n), l0 : {<<>>}, l1 : {<<>>}]
InternalShapes ==
    [leaf : {FALSE}, keys : [1..1 -> ShapeKeys],
     l0 : SeqsUpTo(ShapeKeys, 1), l1 : SeqsUpTo(ShapeKeys, 1)]

\* node ids: the root is 1, its i-th subtree 1 + i, the leaves of an internal
\* i-th subtree 2 + 2i and 3 + 2i
RECURSIVE LeafOrder(_, _)
LeafOrder(subs, i) ==
    IF i > Len(subs) THEN <<>>
    ELSE (IF subs[i].leaf THEN <<1 + i>> ELSE <<2 + 2 * i, 3 + 2 * i>>)
         \o LeafOrder(subs, i + 1)

NextIn(order, n) ==
    LET S == {j \in 1..(Len(order) - 1) : order[j] = n}
    IN IF S = {} THEN Nil ELSE order[Min(S) + 1]

ShapeLeaf(ks, nxt) ==
    [is_leaf |-> TRUE, keys |-> ks, vals |-> [j \in 1..Len(ks) |-> ValueBase + ks[j]],
     kids |-> <<>>, next |-> nxt]
ShapeInternal(ks, kids) ==
    [is_leaf |-> FALSE, keys |-> ks, vals |-> <<>>, kids |-> kids, next |-> Nil]

ShapeHeap(rootkeys, subs) ==
    LET order == LeafOrder(subs, 1)
        sub(n) == subs[n - 1]
        under(n) == subs[(n - 2) \div 2]
    IN [n \in NodeIds |->
          IF n = 1 THEN ShapeInternal(rootkeys, [i \in 1..Len(subs) |-> 1 + i])
          ELSE IF n - 1 <= Len(subs) /\ sub(n).leaf
          THEN ShapeLeaf(sub(n).keys, NextIn(order, n))
          ELSE IF n - 1 <= Len(subs)
          THEN ShapeInternal(sub(n).keys, <<2 * n, 2 * n + 1>>)
          ELSE IF n >= 4 /\ (n - 2) \div 2 <= Len(subs) /\ ~under(n).leaf
          THEN ShapeLeaf(IF n % 2 = 0 THEN under(n).l0 ELSE under(n).l1, NextIn(order, n))
          ELSE FreeNode]

LeafRootHeap(ks) == [n \in NodeIds |-> IF n = 1 THEN ShapeLeaf(ks, Nil) ELSE FreeNode]

\* Trees of height 2 as puts and removes of more keys would leave them: a root
\* over two internal nodes of na and nb leaves, every leaf within its bounds,
\* the keys 1, 2, 3, ... laid out in order and every separator the smallest
\* key of the subtree to its right.  The leaves are nodes 4, 5, ...
RECURSIVE SumTo(_, _)
SumTo(sizes, j) == IF j = 0 THEN 0 ELSE sizes[j] + SumTo(sizes, j - 1)
WideFirst(sizes, j) == 1 + SumTo(sizes, j - 1)
WideHeap(na, nb, sizes) ==
    [n \in NodeIds |->
       IF n = 1 THEN ShapeInternal(<<WideFirst(sizes, na + 1)>>, <<2, 3>>)
       ELSE IF n = 2
       THEN ShapeInternal([j \in 1..(na - 1) |-> WideFirst(sizes, j + 1)],
                          [j \in 1..na |-> 3 + j])
       ELSE IF n = 3
       THEN ShapeInternal([j \in 1..(nb - 1) |-> WideFirst(sizes, na + j + 1)],
                          [j \in 1..nb |-> 3 + na + j])
       ELSE IF n - 3 <= na + nb
       THEN ShapeLeaf([i \in 1..sizes[n - 3] |-> WideFirst(sizes, n - 3) + i - 1],
                      IF n - 3 < na + nb THEN n + 1 ELSE Nil)
       ELSE FreeNode]

WideHeaps ==
    UNION {{WideHeap(na, nb, sizes) : sizes \in [1..(na + nb) -> 1..ShapeFanout]} :
             na \in 2..(ShapeFanout + 1), nb \in 2..(ShapeFanout + 1)}

ShapeHeaps ==
    {LeafRootHeap(ks) : ks \in SeqsUpTo(ShapeKeys, ShapeFanout + 1)}
    \cup {ShapeHeap(rk, <<a, b>>) :
            rk \in [1..1 -> ShapeKeys],
            a \in LeafShapes(ShapeFanout + 1) \cup InternalShapes,
            b \in LeafShapes(ShapeFanout + 1) \cup InternalShapes}
    \cup {ShapeHeap(rk, <<a, b, c>>) :
            rk \in [1..2 -> ShapeKeys],
            a \in LeafShapes(1), b \in LeafShapes(1), c \in LeafShapes(1)}
    \cup WideHeaps

\* the handle of a shape: count is the number of keys in its leaves (line 92),
\* height 0 for a leaf root, 2 for the trees of height 2 and 1 otherwise (line 93)
InitShape ==
    /\ heap \in ShapeHeaps
    /\ \E minl \in 1..ShapeFanout, mini \in 1..ShapeFanout :
          tree = [count |-> SumKeyCounts(heap, LeavesUnder(heap, 1)),
                  height |-> IF heap[1].is_leaf THEN 0
                             ELSE IF heap \in WideHeaps THEN 2 ELSE 1,
                  max_keys |-> ShapeFanout, min_leaf_keys |-> minl,
                  min_internal_keys |-> mini, root |-> 1]
    /\ op = "shape"
    /\ ret = BPTREE_OK
    /\ log = <<>>
    /\ abs = <<>>
    /\ damaged = 0
    /\ build = DefaultBuild

\* every call is applied to the drawn shape itself
ShapeRemove == op = "shape" /\ Remove
ShapeRead == op = "shape" /\ Read
NextShape == ShapeRemove \/ ShapeRead
SpecShape == InitShape /\ [][NextShape]_vars

\* the guard of a leaf merge (lines 553 and 617) as remove(key) meets it: the
\* leaf that loses key falls below its floor, no sibling can lend, and the two
\* leaves together hold more than max_keys keys
LeafMergeOverflows(t, h, key) ==
    LET path == Descend(h, t.root, key, Fuel)
    IN /\ path.ok /\ Len(path.nodes) > 0
       /\ LeafSearch(h[path.leaf].keys, key) >= 0
       /\ LET i == LeafSearch(h[path.leaf].keys, key)
              h1 == [h EXCEPT ![path.leaf].keys = RemoveAt(@, i),
                              ![path.leaf].vals = RemoveAt(@, i)]
              parent == path.nodes[Len(path.nodes)]
              child_idx == path.idx[Len(path.nodes)]
              repair == RepairAt(t, h1, parent, child_idx)
          IN /\ repair \in {"merge_left", "merge_right"}
             /\ h1[SiblingOf(h1, parent, child_idx, repair)].is_leaf
             /\ Len(h1[path.leaf].keys)
                  + Len(h1[SiblingOf(h1, parent, child_idx, repair)].keys) > t.max_keys

\* C13: a remove whose merge finds more keys than a node can hold returns
\* BPTREE_INTERNAL_ERROR as a result code: the process is not terminated and
\* neither node is written.
C13_MergeOverflowIsError ==
    [][\A k \in Keys :
         (op' = "remove" /\ LeafMergeOverflows(tree, heap, k) /\ bptree_remove(k))
            => /\ ret' = BPTREE_INTERNAL_ERROR
               /\ heap' = heap]_vars

\* C15: a put that overflows the root makes a new internal root with exactly
\* one key and two children, the old root the left one, and adds one to the
\* height.  With max_keys = 3 the fourth put does so: the root is then an
\* internal node with one key over two leaves, check_invariants() is true and
\* get returns the value put with each of the four keys.
C15_RootSplit ==
    [][(op' = "put" /\ ret' = BPTREE_OK) =>
          /\ InLog(log', "new_root") =>
                /\ ~heap'[tree'.root].is_leaf
                /\ Len(heap'[tree'.root].keys) = 1
                /\ Len(heap'[tree'.root].kids) = 2
                /\ heap'[tree'.root].kids[1] = tree.root
                /\ heap[tree'.root] = FreeNode
                /\ tree'.height = tree.height + 1
          /\ (tree.max_keys = 3 /\ Cardinality(DOMAIN abs) = 3) =>
                /\ log' = <<"split_leaf", "new_root">>
                /\ \A j \in 1..2 : heap'[heap'[tree'.root].kids[j]].is_leaf
                /\ bptree_check_invariants(tree', heap') = "true"
                /\ \A k \in DOMAIN abs' :
                      bptree_get(tree', heap', k) = [status |-> BPTREE_OK, out |-> abs'[k]]
      ]_vars

\* C15 witness: with max_keys = 3 the put of the fourth key, 4 after 1, 2, 3,
\* has split the root leaf and left a tree of height 1.
C15_Witness ==
    /\ op = "put" /\ ret = BPTREE_OK /\ tree.max_keys = 3
    /\ log = <<"split_leaf", "new_root">>
    /\ Stored = 1..4 /\ tree.height = 1
    /\ heap[tree.root].keys = <<3>>

\* the tree of the scenario: max_keys = 3, the keys 1, 2, 3, 4 (for 10, 20,
\* 30, 40) put into a new tree, the fourth put having split the root
ScenarioTree ==
    /\ tree.max_keys = 3 /\ Stored = 1..4 /\ tree.height = 1
    /\ op = "put" /\ ret = BPTREE_OK /\ InLog(log, "new_root")

Repairs(lg) == {i \in 1..Len(lg) : lg[i] # "root_shrink"}

ParentSlots(h, n) ==
    {<<p, j>> \in NodeIds \X (1..(MaxFanout + 3)) :
        IsNode(h, p) /\ ~h[p].is_leaf /\ j <= Len(h[p].kids) /\ h[p].kids[j] = n}

\* C17: after every completed put or remove every allocated node is reachable
\* from the root through exactly one chain of child references, no live child
\* slot is null, and no freed node is referenced by a child slot or a next link.
C17_SingleOwnership ==
    Returned =>
       \A n \in NodeIds :
          IF IsNode(heap, n)
          THEN /\ n \in NodesUnder(heap, tree.root, Fuel)
               /\ Cardinality(ParentSlots(heap, n)) = (IF n = tree.root THEN 0 ELSE 1)
               /\ ~heap[n].is_leaf =>
                     /\ Len(heap[n].kids) = Len(heap[n].keys) + 1
                     /\ \A j \in 1..Len(heap[n].kids) : IsNode(heap, heap[n].kids[j])
               /\ heap[n].is_leaf => (heap[n].next = Nil \/ IsNode(heap, heap[n].next))
          ELSE ParentSlots(heap, n) = {}

AllKeysAscending(t, h) ==
    \A n \in NodesUnder(h, t.root, Fuel) :
       \A i \in 1..(Len(h[n].keys) - 1) : h[n].keys[i] < h[n].keys[i + 1]

\* 2: every non-root node within [floor, max_keys]; the root at most max_keys,
\* and an internal root of a non-empty tree at least 1
AllOccupancy(t, h) ==
    \A n \in NodesUnder(h, t.root, Fuel) :
       IF n # t.root
       THEN Len(h[n].keys) >= (IF h[n].is_leaf THEN t.min_leaf_keys ELSE t.min_internal_keys)
            /\ Len(h[n].keys) <= t.max_keys
       ELSE Len(h[n].keys) <= t.max_keys
            /\ ((~h[n].is_leaf /\ t.count > 0) => Len(h[n].keys) >= 1)

\* 3: all leaves at one depth
OneLeafDepth(t, h) == Cardinality(LeafDepths(h, t.root, 0, Fuel)) <= 1

\* 4: max(C[0]) < K[0], min(C[i]) = K[i-1] and max(C[i]) < K[i], over the keys
\* stored under each child
AllKeyBounds(t, h) ==
    \A n \in InternalsUnder(h, t.root) :
       \A i \in 0..Len(h[n].keys) :
          LET under == KeysUnder(h, At(h[n].kids, i))
          IN under # {} =>
                /\ i >= 1 => Min(under) = At(h[n].keys, i - 1)
                /\ i < Len(h[n].keys) => Max(under) < At(h[n].keys, i)

FourConditions(t, h) ==
    AllKeysAscending(t, h) /\ AllOccupancy(t, h) /\ OneLeafDepth(t, h) /\ AllKeyBounds(t, h)

\* C19: on every tree shape check_invariants() returns, and returns true
\* exactly when the four conditions hold.
C19_CheckerExact ==
    op = "check_invariants" =>
       /\ ret \in {"true", "false"}
       /\ ret = "true" <=> FourConditions(tree, heap)

\* remove(key) takes the leaf that holds key below its floor
LeafUnderflows(t, h, key) ==
    LET path == Descend(h, t.root, key, Fuel)
    IN /\ path.ok /\ Len(path.nodes) > 0
       /\ LeafSearch(h[path.leaf].keys, key) >= 0
       /\ Len(h[path.leaf].keys) - 1 < t.min_leaf_keys

\* the leaf that holds key has nodes for siblings
SiblingsAreNodes(t, h, key) ==
    LET path == Descend(h, t.root, key, Fuel)
        parent == path.nodes[Len(path.nodes)]
        child_idx == path.idx[Len(path.nodes)]
    IN /\ child_idx > 0 => IsNode(h, At(h[parent].kids, child_idx - 1))
       /\ child_idx < Len(h[parent].keys) => IsNode(h, At(h[parent].kids, child_idx + 1))

FloorOf(t, h, n) == IF h[n].is_leaf THEN t.min_leaf_keys ELSE t.min_internal_keys

\* the repair the stated order gives the child_idx-th child of parent
ClaimedRepair(t, h, parent, child_idx) ==
    LET left == At(h[parent].kids, child_idx - 1)
        right == At(h[parent].kids, child_idx + 1)
        has_left == child_idx > 0
        has_right == child_idx < Len(h[parent].keys)
        left_lends == has_left /\ Len(h[left].keys) > FloorOf(t, h, left)
        right_lends == has_right /\ Len(h[right].keys) > FloorOf(t, h, right)
    IN IF left_lends THEN "borrow_left"
       ELSE IF right_lends THEN "borrow_right"
       ELSE IF has_left THEN "merge_left"
       ELSE "merge_right"

WalkStart(t, h, key) ==
    LET path == Descend(h, t.root, key, Fuel)
        i == LeafSearch(h[path.leaf].keys, key)
    IN [heap |-> [h EXCEPT ![path.leaf].keys = RemoveAt(@, i),
                           ![path.leaf].vals = RemoveAt(@, i)],
        path |-> path,
        parent |-> path.nodes[Len(path.nodes)],
        child_idx |-> path.idx[Len(path.nodes)],
        child |-> path.leaf]

\* remove(key) starts a walk whose first repair is the given one, on two leaves
FirstRepairIs(t, h, key, repair) ==
    /\ LeafUnderflows(t, h, key) /\ SiblingsAreNodes(t, h, key)
    /\ LET w == WalkStart(t, h, key)
       IN /\ RepairAt(t, w.heap, w.parent, w.child_idx) = repair
          /\ h[SiblingOf(w.heap, w.parent, w.child_idx, repair)].is_leaf

\* C21: a leaf borrow from the left moves the left sibling's last (key, value)
\* pair into slot 0 of the underflowing leaf: the sibling keeps its other
\* pairs, the leaf's former pairs follow the moved one, the moved key keeps
\* its value, and the parent separator is the leaf's new first key.
C21_BorrowLeftLeaf ==
    Running =>
       \A k \in Keys :
          FirstRepairIs(tree, heap, k, "borrow_left") =>
             LET w == WalkStart(tree, heap, k)
                 left == At(heap[w.parent].kids, w.child_idx - 1)
                 n == Len(heap[left].keys)
             IN \A r \in bptree_remove_results(tree, heap, k) :
                   /\ r.status = BPTREE_OK
                   /\ r.heap[left].keys = SubSeq(heap[left].keys, 1, n - 1)
                   /\ r.heap[left].vals = SubSeq(heap[left].vals, 1, n - 1)
                   /\ r.heap[w.child].keys = <<heap[left].keys[n]>> \o w.heap[w.child].keys
                   /\ r.heap[w.child].vals = <<heap[left].vals[n]>> \o w.heap[w.child].vals
                   /\ At(r.heap[w.parent].keys, w.child_idx - 1) = heap[left].keys[n]

\* C22: a leaf borrow from the right moves the right sibling's first (key,
\* value) pair into the last slot of the underflowing leaf: the sibling is
\* left with its former pairs 1..n-1 shifted left by one, and the parent
\* separator is the sibling's new first key.
C22_BorrowRightLeaf ==
    Running =>
       \A k \in Keys :
          FirstRepairIs(tree, heap, k, "borrow_right") =>
             LET w == WalkStart(tree, heap, k)
                 right == At(heap[w.parent].kids, w.child_idx + 1)
             IN \A r \in bptree_remove_results(tree, heap, k) :
                   /\ r.status = BPTREE_OK
                   /\ r.heap[right].keys = Tail(heap[right].keys)
                   /\ r.heap[right].vals = Tail(heap[right].vals)
                   /\ r.heap[w.child].keys = Append(w.heap[w.child].keys, heap[right].keys[1])
                   /\ r.heap[w.child].vals = Append(w.heap[w.child].vals, heap[right].vals[1])
                   /\ At(r.heap[w.parent].keys, w.child_idx) = heap[right].keys[2]

\* the heaps in which the walk of remove(key) reaches the level above the
\* leaf's parent: the leaf was merged and nothing stopped the walk
AfterLeafMerge(t, h, key) ==
    IF ~(LeafUnderflows(t, h, key) /\ SiblingsAreNodes(t, h, key)) THEN {}
    ELSE LET w == WalkStart(t, h, key)
             repair == RepairAt(t, w.heap, w.parent, w.child_idx)
         IN IF repair \notin {"merge_left", "merge_right"} \/ Len(w.path.nodes) < 2 THEN {}
            ELSE {o.h : o \in {x \in ApplyRepair(t, w.heap, w.parent, w.child_idx, repair) :
                                   x.st = "ok"}}

\* the level above the leaf's parent on the path of remove(key)
UpperLevel(t, h, key) ==
    LET path == Descend(h, t.root, key, Fuel)
    IN [parent |-> path.nodes[Len(path.nodes) - 1],
        child_idx |-> path.idx[Len(path.nodes) - 1]]

\* C23: an internal borrow takes one key and one child from the donor and
\* gives one key and one child to the underflowing node, leaves the sequence
\* of child references over the two nodes as it was, and makes the parent
\* separator the smallest key under the right-hand node of the pair.
C23_BorrowInternal ==
    op = "shape" =>
       \A k \in Keys : \A h1 \in AfterLeafMerge(tree, heap, k) :
          LET parent == UpperLevel(tree, heap, k).parent
              child_idx == UpperLevel(tree, heap, k).child_idx
              repair == RepairAt(tree, h1, parent, child_idx)
              child == At(h1[parent].kids, child_idx)
              donor == SiblingOf(h1, parent, child_idx, repair)
              lnode == IF repair = "borrow_left" THEN donor ELSE child
              rnode == IF repair = "borrow_left" THEN child ELSE donor
              sep == IF repair = "borrow_left" THEN child_idx - 1 ELSE child_idx
          IN (repair \in {"borrow_left", "borrow_right"} /\ ~h1[donor].is_leaf) =>
                \A o \in ApplyRepair(tree, h1, parent, child_idx, repair) :
                   /\ o.st = "ok"
                   /\ Len(o.h[donor].keys) = Len(h1[donor].keys) - 1
                   /\ Len(o.h[donor].kids) = Len(h1[donor].kids) - 1
                   /\ Len(o.h[child].keys) = Len(h1[child].keys) + 1
                   /\ Len(o.h[child].kids) = Len(h1[child].kids) + 1
                   /\ o.h[lnode].kids \o o.h[rnode].kids = h1[lnode].kids \o h1[rnode].kids
                   /\ At(o.h[parent].keys, sep) = Min(KeysUnder(o.h, rnode))

\* C24: a merge of two internal siblings leaves in the left one of the pair
\* the left node's keys, the parent separator and the right node's keys, and
\* the children of both in their order; the absorbed node is freed; the parent
\* loses the separator and the reference to the absorbed node and keeps the
\* surviving node at its slot.
C24_MergeInternal ==
    Running =>
       \A k \in Keys : \A h1 \in AfterLeafMerge(tree, heap, k) :
          LET parent == UpperLevel(tree, heap, k).parent
              child_idx == UpperLevel(tree, heap, k).child_idx
              repair == RepairAt(tree, h1, parent, child_idx)
              child == At(h1[parent].kids, child_idx)
              sibling == SiblingOf(h1, parent, child_idx, repair)
              lnode == IF repair = "merge_left" THEN sibling ELSE child
              rnode == IF repair = "merge_left" THEN child ELSE sibling
              sep == IF repair = "merge_left" THEN child_idx - 1 ELSE child_idx
          IN (repair \in {"merge_left", "merge_right"} /\ ~h1[sibling].is_leaf) =>
                \A o \in ApplyRepair(tree, h1, parent, child_idx, repair) :
                   /\ o.st = "ok"
                   /\ o.h[lnode].keys
                        = h1[lnode].keys \o <<At(h1[parent].keys, sep)>> \o h1[rnode].keys
                   /\ o.h[lnode].kids = h1[lnode].kids \o h1[rnode].kids
                   /\ o.h[rnode] = FreeNode
                   /\ o.h[parent].keys = RemoveAt(h1[parent].keys, sep)
                   /\ o.h[parent].kids = RemoveAt(h1[parent].kids, sep + 1)
                   /\ At(o.h[parent].kids, sep) = lnode

\* C25: after a completed remove the root is not an internal node with 0
\* keys; the height changes by 0 or -1, by -1 exactly when the walk left an
\* internal root with 0 keys, and then the root is the old root's remaining
\* child and the old root is freed.
C25_RootShrink ==
    [][(op' = "remove" /\ ret' = BPTREE_OK) =>
          /\ ~(IsNode(heap', tree'.root) /\ ~heap'[tree'.root].is_leaf
                /\ Len(heap'[tree'.root].keys) = 0)
          /\ tree'.height \in {tree.height, tree.height - 1}
          /\ InLog(log', "root_shrink") <=> tree'.height = tree.height - 1
          /\ InLog(log', "root_shrink") =>
                /\ heap'[tree.root] = FreeNode
                /\ IsNode(heap', tree'.root)
                /\ \E j \in 1..Len(heap[tree.root].kids) :
                      heap[tree.root].kids[j] = tree'.root
          /\ ~InLog(log', "root_shrink") => tree'.root = tree.root]_vars

\* ---------------------------------------------------------------- splits
SeqKeys(s) == {s[j] : j \in 1..Len(s)}
CountIn(lg, e) == Cardinality({i \in 1..Len(lg) : lg[i] = e})
\* the key a completed put added
PutKey(before, after) == CHOOSE k \in DOMAIN after : k \notin DOMAIN before
\* the node a split of internal node p allocated: the new internal node that
\* took over some of p's children
SplitSibling(h, h2, p) ==
    CHOOSE q \in NodeIds :
       /\ h[q] = FreeNode /\ IsNode(h2, q) /\ ~h2[q].is_leaf
       /\ \E j \in 1..Len(h2[q].kids) : h2[q].kids[j] \in SeqKeys(h[p].kids)
\* the separator that reached level d of the path, and the key level d sent up
RECURSIVE Incoming(_, _, _, _, _)
Promoted(h, h2, path, d, leafsep) ==
    LET p == path.nodes[d]
        q == SplitSibling(h, h2, p)
    IN CHOOSE x \in SeqKeys(h[p].keys) \cup {Incoming(h, h2, path, d, leafsep)} :
          x \notin SeqKeys(h2[p].keys) \cup SeqKeys(h2[q].keys)
Incoming(h, h2, path, d, leafsep) ==
    IF d = Len(path.nodes) THEN leafsep ELSE Promoted(h, h2, path, d + 1, leafsep)
InternalKeys(h) ==
    UNION {SeqKeys(h[n].keys) : n \in {m \in NodeIds : IsNode(h, m) /\ ~h[m].is_leaf}}

\* C26: a put that splits a leaf of max_keys + 1 keys leaves two leaves that
\* hold exactly those keys in order, the separator sent up being the new
\* leaf's first key (still in the leaf), the new leaf taking the old leaf's
\* former next and the old leaf pointing to the new one; every internal node
\* the put splits leaves two nodes holding max_keys keys together, the
\* middle key in neither; every resulting node has between its floor and
\* max_keys keys.
C26_SplitAccounting ==
    [][(op' = "put" /\ ret' = BPTREE_OK /\ InLog(log', "split_leaf")) =>
          LET key == PutKey(abs, abs')
              path == Descend(heap, tree.root, key, Fuel)
              leaf == path.leaf
              new == heap'[leaf].next
              both == heap'[leaf].keys \o heap'[new].keys
              leafsep == heap'[new].keys[1]
              nsplit == CountIn(log', "split_internal")
              depth == Len(path.nodes)
          IN /\ heap[new] = FreeNode /\ IsNode(heap', new) /\ heap'[new].is_leaf
             /\ Len(both) = tree.max_keys + 1
             /\ StrictlyAscending(both)
             /\ SeqKeys(both) = SeqKeys(heap[leaf].keys) \cup {key}
             /\ \A j \in 1..Len(both) :
                   (heap'[leaf].vals \o heap'[new].vals)[j] = abs'[both[j]]
             /\ leafsep \in InternalKeys(heap') /\ leafsep \notin InternalKeys(heap)
             /\ heap'[new].next = heap[leaf].next
             /\ \A n \in {leaf, new} :
                   /\ Len(heap'[n].keys) >= FloorOf(tree', heap', n)
                   /\ Len(heap'[n].keys) <= tree.max_keys
             /\ nsplit <= depth
             /\ \A d \in (depth - nsplit + 1)..depth :
                   LET p == path.nodes[d]
                       q == SplitSibling(heap, heap', p)
                       incoming == Incoming(heap, heap', path, d, leafsep)
                       had == SeqKeys(heap[p].keys) \cup {incoming}
                       have == SeqKeys(heap'[p].keys) \cup SeqKeys(heap'[q].keys)
                       promoted == Promoted(heap, heap', path, d, leafsep)
                   IN /\ heap[q] = FreeNode /\ IsNode(heap', q) /\ ~heap'[q].is_leaf
                      /\ Cardinality(had) = tree.max_keys + 1
                      /\ Len(heap'[p].keys) + Len(heap'[q].keys) = tree.max_keys
                      /\ StrictlyAscending(heap'[p].keys \o heap'[q].keys)
                      /\ have \subseteq had
                      /\ had \ have = {promoted}
                      /\ \A x \in SeqKeys(heap'[p].keys) : x < promoted
                      /\ \A x \in SeqKeys(heap'[q].keys) : promoted < x
                      /\ promoted \in InternalKeys(heap')
                      /\ Len(heap'[p].kids) = Len(heap'[p].keys) + 1
                      /\ Len(heap'[q].kids) = Len(heap'[q].keys) + 1
                      /\ SeqKeys(heap[p].kids) \subseteq
                            SeqKeys(heap'[p].kids) \cup SeqKeys(heap'[q].kids)
                      /\ \A n \in {p, q} :
                            /\ Len(heap'[n].keys) >= FloorOf(tree', heap', n)
                            /\ Len(heap'[n].keys) <= tree.max_keys]_vars

\* C26 witness: a completed put has split a leaf and the internal node above
\* it, and the old leaf's next is the leaf the split allocated.
C26_Witness ==
    /\ op = "put" /\ ret = BPTREE_OK
    /\ InLog(log, "split_leaf") /\ InLog(log, "split_internal")
    /\ \E l \in NodeIds :
          /\ IsNode(heap, l) /\ heap[l].is_leaf /\ IsNode(heap, heap[l].next)
          /\ Len(heap[l].keys) = tree.max_keys

\* ------------------------------------------------------- the walk's extent
MergeNames ==
    {"merge_left_leaf", "merge_right_leaf", "merge_left_internal", "merge_right_internal"}
LeafRepairNames ==
    {"borrow_left_leaf", "borrow_right_leaf", "merge_left_leaf", "merge_right_leaf"}
\* the repairs of a call, one per level the loop changed, bottom-up
WalkSteps(lg) == SelectSeq(lg, LAMBDA e : e # "root_shrink")
\* the node the loop examines at level d of a path: the child of path.nodes[d]
ExaminedAt(path, d) == IF d = Len(path.nodes) THEN path.leaf ELSE path.nodes[d + 1]

\* C27: the walk of a completed remove repairs the path bottom-up, one level
\* at a time and each level at most once: every repair but the last is a
\* merge (a borrow ends the walk), a walk that ends below the root without a
\* borrow ends at a child that has its floor and leaves that child's parent
\* as it was, and every path node above the level where the walk ended is
\* unchanged.
C27_WalkExtent ==
    Running =>
       \A k \in Keys :
          LET path == Descend(heap, tree.root, k, Fuel)
              depth == Len(path.nodes)
          IN \A r \in bptree_remove_results(tree, heap, k) :
                r.status = BPTREE_OK =>
                   LET steps == WalkSteps(r.log)
                       n == Len(steps)
                       merges == CountIn(r.log, "merge_left_leaf")
                                   + CountIn(r.log, "merge_right_leaf")
                                   + CountIn(r.log, "merge_left_internal")
                                   + CountIn(r.log, "merge_right_internal")
                       stop == depth - merges
                   IN /\ n <= depth
                      /\ \A i \in 1..(n - 1) : steps[i] \in MergeNames
                      /\ \A i \in 1..n : (i = 1) <=> (steps[i] \in LeafRepairNames)
                      /\ (stop >= 1 /\ n = merges) =>
                            /\ Len(r.heap[ExaminedAt(path, stop)].keys)
                                 >= FloorOf(tree, r.heap, ExaminedAt(path, stop))
                            /\ r.heap[path.nodes[stop]] = heap[path.nodes[stop]]
                      /\ \A d \in 1..(stop - 1) : r.heap[path.nodes[d]] = heap[path.nodes[d]]
                      /\ stop >= 1 => r.tree.root = tree.root /\ r.tree.height = tree.height

\* C27 witness: in a tree of height 2 a remove merged two leaves and stopped
\* there, the internal node above them keeping its floor.
C27_Witness ==
    /\ op = "remove" /\ ret = BPTREE_OK
    /\ tree.height = 2
    /\ Len(log) = 1 /\ log[1] \in {"merge_left_leaf", "merge_right_leaf"}

\* C28: once a put or remove has returned, every node holds at most max_keys
\* keys (and as many values, or one more child), so that no slot beyond the
\* max_keys + 1 key slots and max_keys + 2 child slots of a node is live.
C28_CapacityKept ==
    Returned =>
       \A n \in NodeIds :
          IsNode(heap, n) =>
             /\ Len(heap[n].keys) <= tree.max_keys
             /\ heap[n].is_leaf => Len(heap[n].vals) <= tree.max_keys
             /\ ~heap[n].is_leaf => Len(heap[n].kids) <= tree.max_keys + 1

\* ------------------------------------------- the documented key relation
\* lines 233-235, the comment above the checker: all keys in child i are
\* <= key[i], and all keys in child i are > key[i-1]
DocumentedRelation(h, root) ==
    \A n \in InternalsUnder(h, root) :
       \A i \in 0..(Len(h[n].kids) - 1) :
          \A k \in KeysUnder(h, At(h[n].kids, i)) :
             /\ i < Len(h[n].keys) => k <= At(h[n].keys, i)
             /\ i > 0 => k > At(h[n].keys, i - 1)

\* C29: the checker accepts a tree only if every internal node satisfies the
\* relation its header comment documents (keys of child i are <= key[i] and
\* > key[i-1]), and every tree a put or remove returns satisfies it.
C29_DocumentedRelation ==
    /\ bptree_check_invariants(tree, heap) = "true" => DocumentedRelation(heap, tree.root)
    /\ (Returned /\ op \in {"put", "remove"}) => DocumentedRelation(heap, tree.root)

\* ------------------------------------------------------------- node layout
\* line 145: the larger of sizeof(bptree_value_t) and sizeof(bptree_node*)
req_align(b) == IF b.value.size > b.ptr.size THEN b.value.size ELSE b.ptr.size

\* lines 143-150: the bytes of the key region, padding included
bptree_keys_area_size(b, max_keys) ==
    LET keys_size == (max_keys + 1) * b.key.size
        pad == (req_align(b) - (keys_size % req_align(b))) % req_align(b)
    IN keys_size + pad

\* lines 357-368: header, key region, and max_keys + 1 values or max_keys + 2
\* child pointers
bptree_node_alloc_size(b, t, is_leaf) ==
    LET keys_area_size == bptree_keys_area_size(b, t.max_keys)
        data_payload_size == IF is_leaf THEN (t.max_keys + 1) * b.value.size
                             ELSE (t.max_keys + 2) * b.ptr.size
    IN HeaderType(b.ptr).size + (keys_area_size + data_payload_size)

\* x & ~m on size_t, bit by bit: the bits of x that are not set in m
RECURSIVE AndNot(_, _)
AndNot(x, m) ==
    IF x = 0 THEN 0
    ELSE (IF m % 2 = 1 THEN 0 ELSE x % 2) + 2 * AndNot(x \div 2, m \div 2)

\* lines 372-391: the two arguments bptree_node_alloc passes to aligned_alloc
aligned_alloc_args(b, t, is_leaf) ==
    LET a0 == HeaderType(b.ptr).align
        a1 == IF a0 > b.key.align THEN a0 ELSE b.key.align
        max_align == IF is_leaf
                     THEN (IF a1 > b.value.align THEN a1 ELSE b.value.align)
                     ELSE (IF a1 > b.ptr.align THEN a1 ELSE b.ptr.align)
        size == bptree_node_alloc_size(b, t, is_leaf)
    IN [is_leaf |-> is_leaf, align |-> max_align,
        size |-> AndNot(size + max_align - 1, max_align - 1)]

\* a handle whose max_keys is set and whose root is still to be allocated, in
\* every build
InitLayout ==
    /\ build \in Builds
    /\ \E mk \in MinFanout..MaxLayoutKeys :
          tree = [count |-> 0, height |-> 0, max_keys |-> mk, min_leaf_keys |-> 1,
                  min_internal_keys |-> 1, root |-> Nil]
    /\ heap = [n \in NodeIds |-> FreeNode]
    /\ op = "build"
    /\ ret = BPTREE_OK
    /\ log = <<>>
    /\ abs = <<>>
    /\ damaged = 0

KeysAreaSize ==
    /\ op' = "bptree_keys_area_size"
    /\ ret' = bptree_keys_area_size(build, tree.max_keys)
    /\ UNCHANGED <<tree, heap, log, abs, damaged, build>>

NodeAllocSize ==
    \E is_leaf \in BOOLEAN :
       /\ op' = "bptree_node_alloc_size"
       /\ ret' = [is_leaf |-> is_leaf,
                  size |-> bptree_node_alloc_size(build, tree, is_leaf)]
       /\ UNCHANGED <<tree, heap, log, abs, damaged, build>>

AlignedAlloc ==
    \E is_leaf \in BOOLEAN :
       /\ op' = "aligned_alloc"
       /\ ret' = aligned_alloc_args(build, tree, is_leaf)
       /\ UNCHANGED <<tree, heap, log, abs, damaged, build>>

NextLayout == KeysAreaSize \/ NodeAllocSize \/ AlignedAlloc
SpecLayout == InitLayout /\ [][NextLayout]_vars

PowerOfTwo(n) == n \in Alignments \/ \E a \in Alignments : n = 16 * a

\* C30: the key region returned by bptree_keys_area_size is the least
\* multiple of req_align that holds max_keys + 1 keys, so that the values and
\* the child pointers behind it start at an offset aligned for them and
\* clear of the key slots; the size passed to aligned_alloc is a multiple of
\* the power-of-two node alignment and holds the header, the key region and
\* max_keys + 1 values (leaf) or max_keys + 2 child pointers (internal).
C30_Layout ==
    /\ op = "bptree_keys_area_size" =>
          LET keys_size == (tree.max_keys + 1) * build.key.size
          IN /\ ret % req_align(build) = 0
             /\ ret >= keys_size
             /\ ret - req_align(build) < keys_size
             /\ ret % build.value.align = 0
             /\ ret % build.ptr.align = 0
    /\ op = "aligned_alloc" =>
          LET payload == IF ret.is_leaf THEN (tree.max_keys + 1) * build.value.size
                         ELSE (tree.max_keys + 2) * build.ptr.size
          IN /\ PowerOfTwo(ret.align)
             /\ ret.size % ret.align = 0
             /\ ret.size >= HeaderType(build.ptr).size
                              + bptree_keys_area_size(build, tree.max_keys) + payload
             /\ ret.size - ret.align
                  < bptree_node_alloc_size(build, tree, ret.is_leaf)
====
